---- MODULE Spec2Model ----
(***************************************************************************)
(* A model of src/read.py: the Furuno thread that reads ASCII-hex NMEA2000 *)
(* lines, decodes the frames of four PGNs field by field into data_dict,   *)
(* and the get_data accessor other threads call for a copy of data_dict.   *)
(*                                                                         *)
(* A line is modelled after message.split(): a sequence of tokens.  A      *)
(* token that int(token, 16) accepts is modelled by the integer it parses  *)
(* to; a token it rejects is NotHex.  parts[0] and parts[1] (timestamp and *)
(* direction) are never inspected by the code and are the token 0.  The    *)
(* message id, parts[2], is a 32-bit number, wider than the integers of    *)
(* the model checker: it is kept as the pair of its 16-bit halves          *)
(* << high, low >>, and << NotHex, NotHex >> is an id token that is not    *)
(* hexadecimal.                                                            *)
(*                                                                         *)
(* A published value is a float or an int.  It is modelled by the integer  *)
(* it was computed from together with the factors applied to it:           *)
(*   raw * 10^(-res) * (180/pi)^deg                                        *)
(* Two such values are equal floats exactly when the records are equal.    *)
(***************************************************************************)
EXTENDS Integers, Sequences, FiniteSets, TLC

(***************************************************************************)
(* Bounds of the model.                                                    *)
(***************************************************************************)
\* lines the producer reads in one behaviour
MaxFrames == 3
\* payload bytes a generated frame may carry beyond its schema's total length
MaxExtra == 1

(***************************************************************************)
(* Program constants.                                                      *)
(***************************************************************************)
PGN_POSITION == 129025
PGN_COG_SOG == 129026
PGN_ATTITUDE == 127257
PGN_HEADING == 127250
\* 0x3FFFF
PGN_MASK == 262143
\* msgid >> 8
SA_SHIFT == 8
\* a token for which int(token, 16) raises ValueError
NotHex == -1

KnownPgns == {PGN_POSITION, PGN_COG_SOG, PGN_ATTITUDE, PGN_HEADING}

(***************************************************************************)
(* Values and dictionaries.                                                *)
(***************************************************************************)
Num(raw, res, deg) == [kind |-> "num", raw |-> raw, res |-> res, deg |-> deg]
NoneVal == [kind |-> "none", raw |-> 0, res |-> 0, deg |-> 0]

\* what a call returns: a value, or an exception raised
Returned(v) == [exc |-> FALSE, val |-> v]
Raised == [exc |-> TRUE, val |-> NoneVal]

\* {}
EmptyDict == [k \in {} |-> NoneVal]

\* d[k] += v in place of d[k] = v, for the values whose sum the model checker's
\* integers can hold
StoreAccumulate(d, k, v) ==
    [x \in (DOMAIN d) \cup {k} |->
        IF x = k
        THEN IF /\ k \in DOMAIN d /\ v.kind = "num" /\ d[k].kind = "num"
                /\ v.raw \in -65536..65536 /\ d[k].raw \in -65536..65536
             THEN [v EXCEPT !.raw = d[k].raw + v.raw]
             ELSE v
        ELSE d[x]]

\* d.setdefault(k, v) in place of d[k] = v
StoreIfAbsent(d, k, v) ==
    [x \in (DOMAIN d) \cup {k} |-> IF x \in DOMAIN d THEN d[x] ELSE v]

\* d[k] = v
Store(d, k, v) ==
    [x \in (DOMAIN d) \cup {k} |-> IF x = k THEN v ELSE d[x]]

(***************************************************************************)
(* Python list slicing, bytes() and struct.unpack.                         *)
(***************************************************************************)
Min(a, b) == IF a < b THEN a ELSE b

\* s[a:], the slice without its end index
SliceToEnd(s, a, b) ==
    IF a >= Len(s) THEN << >> ELSE SubSeq(s, a + 1, Len(s))

\* s[a:b] for 0 <= a <= b
Slice(s, a, b) ==
    IF a >= Len(s) THEN << >> ELSE SubSeq(s, a + 1, Min(b, Len(s)))

\* bytes(data) raises ValueError unless every element is in range(0, 256)
BytesOk(data) == \A i \in 1..Len(data) : data[i] >= 0 /\ data[i] <= 255

Pow2(n) == 2 ^ n

\* the integer that bytes spell, least significant first; signed: in two's
\* complement, the last byte carrying the sign
RECURSIVE LittleEndian(_, _)
LittleEndian(data, signed) ==
    IF Len(data) = 0 THEN 0
    ELSE IF Len(data) = 1
         THEN IF signed /\ data[1] >= 128 THEN data[1] - 256 ELSE data[1]
         ELSE data[1] + 256 * LittleEndian(Tail(data), signed)

\* struct.unpack('<i' | '<h' | '<H', bytes(data))[0]
Unpack(size, signed, data) ==
    IF ~BytesOk(data) \/ Len(data) # size
    THEN Raised
    ELSE Returned(LittleEndian(data, signed))

\* raw_value * resolution, for a call of Unpack
Scaled(r, res) == IF r.exc THEN Raised ELSE Returned(Num(r.val, res, 0))

(***************************************************************************)
(* The field decoders.                                                     *)
(***************************************************************************)
decode_uint8_field(data) ==
    IF Len(data) = 0 THEN Raised ELSE Returned(Num(data[1], 0, 0))

RECURSIVE Reverse(_)
Reverse(s) == IF Len(s) = 0 THEN << >> ELSE Reverse(Tail(s)) \o << s[1] >>

\* the longitude decoder reading its bytes most significant first ('>i')
decode_longitude_i32_big_endian(data) ==
    Scaled(Unpack(4, TRUE, Reverse(Slice(data, 0, 4))), 7)

decode_longitude_i32_field(data) == Scaled(Unpack(4, TRUE, Slice(data, 0, 4)), 7)

decode_latitude_i32_field(data) == Scaled(Unpack(4, TRUE, Slice(data, 0, 4)), 7)

\* the signed angle decoder without its length guard, reading the bytes
\* there are (int.from_bytes in place of struct.unpack)
decode_angle_i16_padded(data) ==
    IF ~BytesOk(data) THEN Raised
    ELSE Returned(Num(LittleEndian(data, TRUE), 4, 0))

decode_angle_i16_field(data) ==
    IF Len(data) # 2 THEN Returned(NoneVal)
    ELSE Scaled(Unpack(2, TRUE, data), 4)

decode_angle_u16_field(data) == Scaled(Unpack(2, FALSE, data), 4)

decode_lookup_field(data) == Scaled(Unpack(2, FALSE, data), 0)

\* self.field_decoders.get(field_name); "" is None.  The entries "Date" and
\* "Time" are left out: no field list names them.
field_decoders(name) ==
    CASE name = "Heading" -> "angle_u16"
      [] name \in {"Deviation", "Variation", "Yaw", "Pitch", "Roll"} -> "angle_i16"
      [] name = "Reference" -> "lookup"
      [] name \in {"SID", "A", "B"} -> "uint8"
      [] name = "Latitude" -> "latitude_i32"
      [] name = "Longitude" -> "longitude_i32"
      [] OTHER -> ""

\* decoder(data)
Call(decoder, data) ==
    CASE decoder = "angle_u16" -> decode_angle_u16_field(data)
      [] decoder = "angle_i16" -> decode_angle_i16_field(data)
      [] decoder = "lookup" -> decode_lookup_field(data)
      [] decoder = "uint8" -> decode_uint8_field(data)
      [] decoder = "latitude_i32" -> decode_latitude_i32_field(data)
      [] decoder = "longitude_i32" -> decode_longitude_i32_field(data)

\* 180 * x / np.pi; 180 * None raises TypeError
ToDegrees(r) ==
    IF r.exc \/ r.val.kind = "none" THEN Raised
    ELSE Returned([r.val EXCEPT !.deg = @ + 1])

(***************************************************************************)
(* The field lists and the four branches of parse_raw_message.             *)
(***************************************************************************)
Field(name, length) == [name |-> name, length |-> length]

field_list_gps == << Field("Latitude", 4), Field("Longitude", 4) >>

field_list_cog_sog ==
    << Field("SID", 1), Field("COG Reference", 1), Field("COG", 2), Field("SOG", 2) >>

field_list_attitude ==
    << Field("SID", 1), Field("Yaw", 2), Field("Pitch", 2), Field("Roll", 2) >>

field_list_heading == << Field("SID", 1), Field("Heading", 2) >>

\* the list the branch taken for pgn walks
FieldList(p) ==
    CASE p = PGN_POSITION -> field_list_gps
      [] p = PGN_COG_SOG -> field_list_cog_sog
      [] p = PGN_ATTITUDE -> field_list_attitude
      [] p = PGN_HEADING -> field_list_heading

RECURSIVE SumLengths(_)
SumLengths(fields) ==
    IF Len(fields) = 0 THEN 0 ELSE fields[1].length + SumLengths(Tail(fields))

\* sum(field['length'] for field in field_list)
expected_byte_count(p) == SumLengths(FieldList(p))

\* the SID guard missing from the attitude branch
SkipsSIDNotAttitude(p) == p \in {PGN_POSITION, PGN_HEADING}

\* the branches that guard the decode with `if not field_name == 'SID'`
SkipsSID(p) == p \in {PGN_POSITION, PGN_ATTITUDE, PGN_HEADING}

\* the conversion missing from the heading branch
AppliesDegreesAttitudeOnly(p) == p = PGN_ATTITUDE

\* the conversion missing from the attitude branch
AppliesDegreesHeadingOnly(p) == p = PGN_HEADING

\* the branches that store 180*decoder(...)/np.pi
AppliesDegrees(p) == p \in {PGN_ATTITUDE, PGN_HEADING}

\* the right-hand side of the assignment to self.data_dict[field_name]
Evaluate(p, name, data) ==
    IF AppliesDegrees(p)
    THEN ToDegrees(Call(field_decoders(name), data))
    ELSE Call(field_decoders(name), data)

\* the decoder's result stored first and converted in place afterwards
DictDuringEvaluationInPlace(d, p, name, data) ==
    LET r == Call(field_decoders(name), data)
    IN  IF r.exc THEN d ELSE Store(d, name, r.val)

\* data_dict while the right-hand side is evaluated: the subscript store
\* happens only after it, so the evaluation leaves the dictionary alone
DictDuringEvaluation(d, p, name, data) == d

\* the for loop of a branch of parse_raw_message run to its end on dictionary
\* d, from field i of the list with the offset at start
RECURSIVE field_loop(_, _, _, _, _)
field_loop(d, p, bytes, i, start) ==
    IF i > Len(FieldList(p)) THEN d
    ELSE LET field == FieldList(p)[i]
             data == Slice(bytes, start, start + field.length)
             r == Evaluate(p, field.name, data)
         IN  IF field_decoders(field.name) = ""
             THEN field_loop(d, p, bytes, i + 1, start)
             ELSE IF (SkipsSID(p) /\ field.name = "SID") \/ r.exc
             THEN field_loop(d, p, bytes, i + 1, start + field.length)
             ELSE field_loop(Store(d, field.name, r.val), p, bytes, i + 1,
                             start + field.length)

\* data_dict after parse_raw_message has decoded the payload bytes of a frame
\* of known PGN p, having started with dictionary d
parse_raw_message(d, p, bytes) == field_loop(d, p, bytes, 1, 0)

(***************************************************************************)
(* get_pgn_from_message.                                                   *)
(***************************************************************************)
\* m >> n for a message id m = << high, low >> and n <= 16
ShiftRight(m, n) == m[1] * Pow2(16 - n) + m[2] \div Pow2(n)

\* a & b, a >= 0 and b >= 0
RECURSIVE BitAnd(_, _)
BitAnd(a, b) ==
    IF a = 0 \/ b = 0 THEN 0
    ELSE (a % 2) * (b % 2) + 2 * BitAnd(a \div 2, b \div 2)

\* a mask of 16 bits in place of 18
get_pgn_mask16(m) == BitAnd(ShiftRight(m, SA_SHIFT), 65535)

get_pgn_from_message(m) == BitAnd(ShiftRight(m, SA_SHIFT), PGN_MASK)

(***************************************************************************)
(* The lines the serial port delivers.                                     *)
(***************************************************************************)
\* a 29-bit identifier in a 32-bit word: bits 26..31, PGN, source address
MsgId(hi, p, src) == << hi * 1024 + p \div 256, (p % 256) * 256 + src >>

NotHexId == << NotHex, NotHex >>

ByteAt(seed, i) ==
    IF seed = "up" THEN (17 * i) % 256 ELSE (256 - 3 * i) % 256

Payload(seed, n) == [i \in 1..n |-> ByteAt(seed, i)]

Corrupt(payload, pos, tok) ==
    [i \in 1..Len(payload) |-> IF i = pos THEN tok ELSE payload[i]]

\* a token above 0xFF that int(token, 16) accepts: "1FF"
OverRange == 256 + 255

Line(id, payload) == << 0, 0, id >> \o payload

KnownIds ==
    { MsgId(2, PGN_POSITION, 1), MsgId(2, PGN_COG_SOG, 35),
      MsgId(3, PGN_ATTITUDE, 255), MsgId(38, PGN_HEADING, 0) }

UnknownIds == { MsgId(0, 0, 0), MsgId(63, PGN_MASK, 255), MsgId(2, 129027, 1) }

\* the PGN a generated identifier was built from
PgnOfId(id) == (id[1] % 1024) * 256 + id[2] \div 256

\* frames of the known PGNs with well-formed byte tokens: every length from
\* empty to beyond the schema with one byte pattern, the lengths from the
\* schema's total on with the other
GoodLines ==
    UNION { { Line(id, Payload("up", n)) :
                n \in 0..(expected_byte_count(PgnOfId(id)) + MaxExtra) }
            \cup
            { Line(id, Payload("down", expected_byte_count(PgnOfId(id)) + n)) :
                n \in 0..MaxExtra } :
            id \in KnownIds }

CorruptLines ==
    { Line(id, Corrupt(Payload("up", 8), pos, tok)) :
        id \in KnownIds, pos \in {1, 5}, tok \in {NotHex, OverRange} }

UnknownLines ==
    { Line(id, p) :
        id \in UnknownIds,
        p \in { Payload("up", 8), Corrupt(Payload("up", 8), 2, NotHex),
                Corrupt(Payload("up", 8), 2, OverRange) } }

MalformedLines == { << >>, << 0 >>, << 0, 0 >>, << 0, 0, NotHexId >> }

Lines == GoodLines \cup CorruptLines \cup UnknownLines \cup MalformedLines

\* the lines of the runs with a consumer thread: whole position and attitude
\* frames in both byte patterns, a truncated attitude frame, an empty line
ConcLines ==
    { Line(id, Payload(s, expected_byte_count(PgnOfId(id)))) :
        id \in { MsgId(2, PGN_POSITION, 1), MsgId(3, PGN_ATTITUDE, 255) },
        s \in {"up", "down"} }
    \cup { Line(MsgId(3, PGN_ATTITUDE, 255), Payload("up", 3)), << >> }

(***************************************************************************)
(* State.                                                                  *)
(*   heap        the dictionaries that exist, by reference: "live" is      *)
(*               self.data_dict, "snap" the copy get_data last made        *)
(*   snapRef     the reference the last get_data call returned to the      *)
(*               consumer ("none" before the first call)                   *)
(*   snapTouched the consumer has modified the mapping it was returned     *)
(*   pc          where the producer thread is: "read" (in readline),       *)
(*               "parse" (entering parse_raw_message), "field" (at the top *)
(*               of the loop body for field idx), "store" (right-hand side *)
(*               evaluated, subscript store pending), "crashed" (an        *)
(*               exception left run: the thread is dead)                   *)
(*   line .. val  the locals of run and parse_raw_message                  *)
(*   diag        what the current line has printed                         *)
(*   frames      lines read so far                                         *)
(* History variables, read by the properties only:                         *)
(*   dictAtRead  data_dict when the current line was read                  *)
(*   repeat      the current line equals the line decoded just before it   *)
(*   lastOk      per field, the value of the most recent line that         *)
(*               decodes it, by the reference decoding RefDecode           *)
(*   lastWritten per field, the value of the last completed assignment     *)
(*   snapWritten lastWritten at the time of the last get_data call         *)
(***************************************************************************)
VARIABLES heap, snapRef, snapTouched, pc, line, pgn, int_data_bytes, start,
          idx, val, diag, frames, dictAtRead, repeat, lastOk, lastWritten,
          snapWritten

vars == << heap, snapRef, snapTouched, pc, line, pgn, int_data_bytes, start,
           idx, val, diag, frames, dictAtRead, repeat, lastOk, lastWritten,
           snapWritten >>

producerVars == << pc, line, pgn, int_data_bytes, start, idx, val, diag, frames,
                   dictAtRead, repeat, lastOk, lastWritten >>

data_dict == heap["live"]

Keys == {"Latitude", "Longitude", "SID", "Yaw", "Pitch", "Roll", "Heading"}

(***************************************************************************)
(* Reference decoding of a whole line, stated from the frame layout        *)
(* rather than from the loop: the fields a line decodes, with the byte     *)
(* range and the value of each.                                            *)
(***************************************************************************)
\* every token that is parsed is hexadecimal
Parses(l) == Len(l) >= 3 /\ l[3] # NotHexId /\ \A i \in 4..Len(l) : l[i] # NotHex

PayloadOf(l) == SubSeq(l, 4, Len(l))

\* the fields a PGN publishes: name, first payload byte (from 1), last
\* payload byte, signedness, resolution exponent, degree conversions
Pub(name, lo, hi, signed, res, deg) ==
    [name |-> name, lo |-> lo, hi |-> hi, signed |-> signed, res |-> res, deg |-> deg]

Published(p) ==
    CASE p = PGN_POSITION ->
            { Pub("Latitude", 1, 4, TRUE, 7, 0), Pub("Longitude", 5, 8, TRUE, 7, 0) }
      [] p = PGN_COG_SOG -> { Pub("SID", 1, 1, FALSE, 0, 0) }
      [] p = PGN_ATTITUDE ->
            { Pub("Yaw", 2, 3, TRUE, 4, 1), Pub("Pitch", 4, 5, TRUE, 4, 1),
              Pub("Roll", 6, 7, TRUE, 4, 1) }
      [] p = PGN_HEADING -> { Pub("Heading", 2, 3, FALSE, 4, 1) }
      [] OTHER -> {}

\* the integer the bytes lo..hi of a payload spell, least significant first
RefRaw(payload, f) ==
    LET n == f.hi - f.lo + 1
        top == IF f.signed /\ payload[f.hi] >= 128
               THEN payload[f.hi] - 256 ELSE payload[f.hi]
    IN  IF n = 1 THEN top
        ELSE IF n = 2 THEN payload[f.lo] + 256 * top
        ELSE payload[f.lo] + 256 * payload[f.lo + 1]
             + 65536 * payload[f.lo + 2] + 16777216 * top

RefValue(payload, f) == Num(RefRaw(payload, f), f.res, f.deg)

\* the line decodes field f: its bytes are all there, and are bytes unless
\* the field is the single int that decode_uint8_field returns as it is
RefDecodes(l, f) ==
    /\ Parses(l)
    /\ f.hi <= Len(PayloadOf(l))
    /\ f.hi > f.lo => \A i \in f.lo..f.hi : PayloadOf(l)[i] \in 0..255

RefFields(l) ==
    IF Parses(l) THEN { f \in Published(PgnOfId(l[3])) : RefDecodes(l, f) } ELSE {}

\* lastOk after line l
RefAfter(d, l) ==
    LET fs == RefFields(l)
        names == { f.name : f \in fs }
    IN  [k \in (DOMAIN d) \cup names |->
            IF k \in names
            THEN RefValue(PayloadOf(l), CHOOSE f \in fs : f.name = k)
            ELSE d[k]]

(***************************************************************************)
(* Init: the state after Furuno.__init__ and start().                      *)
(***************************************************************************)
Init ==
    /\ heap = [r \in {"live", "snap"} |-> EmptyDict]
    /\ snapRef = "none"
    /\ snapTouched = FALSE
    /\ pc = "read"
    /\ line = << >>
    /\ pgn = 0
    /\ int_data_bytes = << >>
    /\ start = 0
    /\ idx = 1
    /\ val = NoneVal
    /\ diag = {}
    /\ frames = 0
    /\ dictAtRead = EmptyDict
    /\ repeat = FALSE
    /\ lastOk = EmptyDict
    /\ lastWritten = EmptyDict
    /\ snapWritten = EmptyDict

(***************************************************************************)
(* The producer thread: run and parse_raw_message.                         *)
(***************************************************************************)
\* raw_message = self._stream.readline().decode().strip()
ReadLineFrom(S) ==
    /\ pc = "read"
    /\ frames < MaxFrames
    /\ \E l \in S :
        /\ line' = l
        /\ repeat' = (frames > 0 /\ l = line)
        /\ lastOk' = RefAfter(lastOk, l)
    /\ pc' = "parse"
    /\ frames' = frames + 1
    /\ dictAtRead' = data_dict
    /\ diag' = {}
    /\ UNCHANGED << heap, snapRef, snapTouched, pgn, int_data_bytes, start, idx,
                    val, lastWritten, snapWritten >>

ReadLine == ReadLineFrom(Lines)

\* parts[0], parts[1], int(parts[2], 16), [int(byte, 16) for byte in parts[3:]]:
\* IndexError or ValueError leaves parse_raw_message and run
HeaderRaises(l) ==
    \/ Len(l) < 3
    \/ l[3][1] = NotHex
    \/ \E i \in 4..Len(l) : l[i] = NotHex

\* after a field: the next field of the loop, or the end of parse_raw_message
NextPc(p, i) == IF i > Len(FieldList(p)) THEN "read" ELSE "field"

\* an except clause that gives up the rest of the frame
PcAfterFailureReturn(p, i) == "read"

\* except Exception: print(...), then on to start += field_length and the
\* next field
PcAfterFailure(p, i) == NextPc(p, i)

\* parse_raw_message from its first line to the top of the branch's loop
ParseHeader ==
    /\ pc = "parse"
    /\ IF HeaderRaises(line)
       THEN /\ pc' = "crashed"
            /\ UNCHANGED << pgn, int_data_bytes, start, idx, diag >>
       ELSE LET p == get_pgn_from_message(line[3])
                bytes == SubSeq(line, 4, Len(line))
            IN  /\ pgn' = p
                /\ int_data_bytes' = bytes
                /\ IF p \in KnownPgns
                   THEN /\ start' = 0
                        /\ idx' = 1
                        /\ diag' = IF Len(bytes) < expected_byte_count(p)
                                   THEN diag \cup {[kind |-> "length", field |-> ""]}
                                   ELSE diag
                        /\ pc' = NextPc(p, 1)
                   ELSE /\ pc' = "read"
                        /\ UNCHANGED << start, idx, diag >>
    /\ UNCHANGED << heap, snapRef, snapTouched, line, val, frames, dictAtRead,
                    repeat, lastOk, lastWritten, snapWritten >>

\* one pass of the loop body up to the subscript store
FieldDecode ==
    /\ pc = "field"
    /\ LET field == FieldList(pgn)[idx]
           data == Slice(int_data_bytes, start, start + field.length)
           r == Evaluate(pgn, field.name, data)
       IN  IF field_decoders(field.name) = ""
           THEN \* continue: start is not advanced
                /\ idx' = idx + 1
                /\ pc' = NextPc(pgn, idx + 1)
                /\ UNCHANGED << heap, start, val, diag >>
           ELSE IF SkipsSID(pgn) /\ field.name = "SID"
           THEN /\ start' = start + field.length
                /\ idx' = idx + 1
                /\ pc' = NextPc(pgn, idx + 1)
                /\ UNCHANGED << heap, val, diag >>
           ELSE IF r.exc
           THEN /\ diag' = diag \cup
                        ( {[kind |-> "field", field |-> field.name]} \cup
                          IF field_decoders(field.name) = "angle_i16" /\ Len(data) # 2
                          THEN {[kind |-> "insufficient", field |-> field.name]}
                          ELSE {} )
                /\ start' = start + field.length
                /\ idx' = idx + 1
                /\ pc' = PcAfterFailure(pgn, idx + 1)
                /\ UNCHANGED << heap, val >>
           ELSE /\ val' = r.val
                /\ heap' = [heap EXCEPT !["live"] =
                                DictDuringEvaluation(@, pgn, field.name, data)]
                /\ pc' = "store"
                /\ UNCHANGED << start, idx, diag >>
    /\ UNCHANGED << snapRef, snapTouched, line, pgn, int_data_bytes, frames,
                    dictAtRead, repeat, lastOk, lastWritten, snapWritten >>

\* self.data_dict[field_name] = <value>; start += field_length
FieldStore ==
    /\ pc = "store"
    /\ LET field == FieldList(pgn)[idx]
       IN  /\ heap' = [heap EXCEPT !["live"] = Store(@, field.name, val)]
           /\ lastWritten' = [k \in (DOMAIN lastWritten) \cup {field.name} |->
                                IF k = field.name THEN val ELSE lastWritten[k]]
           /\ start' = start + field.length
           /\ idx' = idx + 1
           /\ pc' = NextPc(pgn, idx + 1)
    /\ UNCHANGED << snapRef, snapTouched, line, pgn, int_data_bytes, val, diag,
                    frames, dictAtRead, repeat, lastOk, snapWritten >>

Next == ReadLine \/ ParseHeader \/ FieldDecode \/ FieldStore

Spec == Init /\ [][Next]_vars

(***************************************************************************)
(* The consumer: a thread that calls get_data and owns what it returns.    *)
(***************************************************************************)
\* return self.data_dict, without the copy
get_data_alias(h) == [heap |-> h, ref |-> "live"]

\* return self.data_dict.copy(): a new dictionary with the same items
get_data(h) == [heap |-> [h EXCEPT !["snap"] = h["live"]], ref |-> "snap"]

GetData ==
    /\ LET r == get_data(heap)
       IN  /\ heap' = r.heap
           /\ snapRef' = r.ref
    /\ snapTouched' = FALSE
    /\ snapWritten' = lastWritten
    /\ UNCHANGED producerVars

\* a value the consumer puts into the mapping it holds
ClientVal == [kind |-> "client", raw |-> 0, res |-> 0, deg |-> 0]

\* del d[k]; nothing when k is absent
Remove(d, k) == [x \in (DOMAIN d) \ {k} |-> d[x]]

\* the consumer adds, changes or removes a key of the mapping it was returned
MutateSnap ==
    /\ snapRef # "none"
    /\ ~snapTouched
    /\ \E k \in Keys, op \in {"set", "del"} :
        heap' = [heap EXCEPT ![snapRef] =
                    IF op = "set" THEN Store(@, k, ClientVal) ELSE Remove(@, k)]
    /\ snapTouched' = TRUE
    /\ UNCHANGED << snapRef, snapWritten >>
    /\ UNCHANGED producerVars

ReadLineConc == ReadLineFrom(ConcLines)

Producer == ReadLineConc \/ ParseHeader \/ FieldDecode \/ FieldStore

NextConc == Producer \/ GetData \/ MutateSnap

SpecConc == Init /\ [][NextConc]_vars

(***************************************************************************)
(* Properties.                                                             *)
(***************************************************************************)
\* the current line has been processed to the end of parse_raw_message
Completed == pc = "read" /\ frames > 0

\* a line that is a frame: an id and byte tokens that are hexadecimal, every
\* byte token a byte
IsFrame(l) == Parses(l) /\ \A i \in 4..Len(l) : l[i] \in 0..255

\* key k is absent from both dictionaries or has the same value in both
SameAt(d1, d2, k) ==
    /\ (k \in DOMAIN d1) = (k \in DOMAIN d2)
    /\ k \in DOMAIN d1 => d1[k] = d2[k]

\* the total of the declared field lengths of a PGN's schema
SchemaTotal(p) ==
    CASE p = PGN_POSITION -> 8
      [] p = PGN_COG_SOG -> 6
      [] p = PGN_ATTITUDE -> 7
      [] p = PGN_HEADING -> 3

LengthWarning == [kind |-> "length", field |-> ""]

\* C1: whatever lines arrive (empty, fewer than 3 tokens, an id or a byte
\* token that is not hex), the producer loop never terminates, so frames
\* arriving after a malformed line are still decoded.
C1_ProducerNeverTerminates == pc # "crashed"

\* C2: a line with a payload token that is not hex or is above 0xFF is
\* discarded whole: it creates or changes no key of the state store, and no
\* value above 255 is used as a payload byte.
C2_BadPayloadLineDiscarded ==
    ( /\ frames > 0
      /\ Len(line) >= 3
      /\ line[3] # NotHexId
      /\ \E i \in 4..Len(line) : line[i] = NotHex \/ line[i] > 255 )
    => /\ data_dict = dictAtRead
       /\ pc \in {"field", "store"} => BytesOk(int_data_bytes)

\* C3: a line whose PGN is none of the four known ones, whatever its payload
\* tokens, leaves the state store as it was and lets no error reach the
\* caller of parse_raw_message.
C3_UnknownPgnNoEffectNoError ==
    ( /\ frames > 0
      /\ Len(line) >= 3
      /\ line[3] # NotHexId
      /\ PgnOfId(line[3]) \notin KnownPgns )
    => /\ data_dict = dictAtRead
       /\ pc # "crashed"

\* C4: for a frame of a known PGN whose payload is shorter than its schema,
\* a length warning is emitted, every published field whose byte range lies
\* inside the payload is decoded and written, and every published field whose
\* byte range extends past the payload keeps its previous value or absence.
C4_TruncatedFramePartialDecode ==
    ( /\ Completed
      /\ IsFrame(line)
      /\ PgnOfId(line[3]) \in KnownPgns
      /\ Len(PayloadOf(line)) < SchemaTotal(PgnOfId(line[3])) )
    => /\ LengthWarning \in diag
       /\ \A f \in Published(PgnOfId(line[3])) :
            IF f.hi <= Len(PayloadOf(line))
            THEN /\ f.name \in DOMAIN data_dict
                 /\ data_dict[f.name] = RefValue(PayloadOf(line), f)
            ELSE SameAt(data_dict, dictAtRead, f.name)

\* C4 witness: an attitude frame of 3 bytes has been decoded; it replaced Yaw
\* and left the Pitch and Roll of an earlier frame in place.
C4_Witness ==
    /\ Completed
    /\ IsFrame(line)
    /\ PgnOfId(line[3]) = PGN_ATTITUDE
    /\ Len(PayloadOf(line)) = 3
    /\ {"Yaw", "Pitch", "Roll"} \subseteq DOMAIN dictAtRead
    /\ data_dict["Yaw"] # dictAtRead["Yaw"]
    /\ data_dict["Pitch"] = dictAtRead["Pitch"]
    /\ data_dict["Roll"] = dictAtRead["Roll"]

\* C5: between lines, a key present in the state store holds the value of
\* the most recent line that decoded that field, and a key is absent exactly
\* when no line so far decoded it.
C5_StoreHoldsMostRecentDecode ==
    pc \in {"read", "crashed"} => data_dict = lastOk

\* C5 witness: a later frame has replaced the Latitude of an earlier one
\* while a field of another PGN is still there.
C5_Witness ==
    /\ Completed
    /\ "Latitude" \in DOMAIN dictAtRead
    /\ data_dict["Latitude"] # dictAtRead["Latitude"]
    /\ "Yaw" \in DOMAIN data_dict

\* C8: decoding the same line twice in a row leaves the store as it was
\* after decoding it once.
C8_DecodeTwiceSameStore == (Completed /\ repeat) => data_dict = dictAtRead

\* C8 witness: a line that writes fields has been decoded twice in a row,
\* from a store that also holds a field of another PGN.
C8_Witness ==
    /\ Completed
    /\ repeat
    /\ RefFields(line) # {}
    /\ \E k \in DOMAIN data_dict : k \notin { f.name : f \in RefFields(line) }

\* C9: only a PGN 129026 frame writes SID: no other line creates or changes
\* it, and a 129026 frame with at least one payload byte sets SID to the
\* first payload byte.
C9_SidOnlyFromCogSog ==
    frames > 0 =>
        IF Parses(line) /\ PgnOfId(line[3]) = PGN_COG_SOG
        THEN (Completed /\ Len(PayloadOf(line)) >= 1) =>
                /\ "SID" \in DOMAIN data_dict
                /\ data_dict["SID"] = Num(PayloadOf(line)[1], 0, 0)
        ELSE SameAt(data_dict, dictAtRead, "SID")

\* C9 witness: an attitude frame has been decoded and published Yaw, and the
\* SID an earlier 129026 frame wrote is still there, not the attitude frame's
\* first byte.
C9_Witness ==
    /\ Completed
    /\ Parses(line)
    /\ PgnOfId(line[3]) = PGN_ATTITUDE
    /\ Len(PayloadOf(line)) >= 3
    /\ "Yaw" \in DOMAIN data_dict
    /\ "SID" \in DOMAIN data_dict
    /\ data_dict["SID"] # Num(PayloadOf(line)[1], 0, 0)

TopSamples == {0, 1, 21, 42, 63}
SrcSamples == {0, 1, 85, 170, 255}

\* C10: for a 32-bit message id, get_pgn_from_message returns bits 8..25 of
\* it: a number in [0, 2^18) that depends neither on the low 8 bits nor on
\* bits 26 and above.
C10_PgnIsBits8To25 ==
    (frames > 0 /\ pc \in {"read", "field", "store"}) =>
        LET m == line[3]
            mid == (m[1] % 1024) * 256 + m[2] \div 256
        IN  /\ pgn = mid
            /\ pgn \in 0..(Pow2(18) - 1)
            /\ \A top \in TopSamples, src \in SrcSamples :
                get_pgn_from_message(
                    << top * 1024 + (m[1] % 1024), (m[2] \div 256) * 256 + src >>) = pgn

\* C10 witness: the id 0xFFFFFFFF has been parsed, to the PGN 0x3FFFF.
C10_Witness ==
    /\ Completed
    /\ line[3] = << 65535, 65535 >>
    /\ pgn = PGN_MASK

\* C6: whatever the interleaving of the producer's field writes with
\* get_data calls, every value of a returned snapshot is, for its key, the
\* value a completed field assignment wrote.
C6_SnapshotValuesAreCompletedWrites ==
    (snapRef # "none" /\ ~snapTouched) =>
        \A k \in DOMAIN heap[snapRef] :
            /\ k \in DOMAIN snapWritten
            /\ heap[snapRef][k] = snapWritten[k]

\* C6 witness: a snapshot was taken while the producer is between evaluating
\* a new Yaw and storing it; the snapshot holds the previous Yaw.
C6_Witness ==
    /\ snapRef = "snap"
    /\ ~snapTouched
    /\ pc = "store"
    /\ FieldList(pgn)[idx].name = "Yaw"
    /\ heap["snap"] = data_dict
    /\ "Yaw" \in DOMAIN heap["snap"]
    /\ heap["snap"]["Yaw"] # val

\* C7: a snapshot is an independent copy: no step of the producer changes a
\* mapping get_data has returned, and a change the consumer makes to the
\* returned mapping does not change the live state store.
C7_SnapshotIsIndependentCopy ==
    [][ /\ (Producer /\ snapRef # "none") => heap'[snapRef] = heap[snapRef]
        /\ MutateSnap => heap'["live"] = heap["live"] ]_vars

\* C7 witness: the producer has replaced Latitude after a get_data call, and
\* the returned mapping still holds the Latitude of the time of the call.
C7_Witness ==
    /\ snapRef # "none"
    /\ ~snapTouched
    /\ "Latitude" \in DOMAIN heap[snapRef]
    /\ "Latitude" \in DOMAIN data_dict
    /\ heap[snapRef]["Latitude"] # data_dict["Latitude"]

\* the two's complement reading of four bytes, least significant first: the
\* bytes as a number when the top bit is clear, else minus one minus the
\* number the inverted bytes spell
Int32LE(b0, b1, b2, b3) ==
    IF b3 < 128
    THEN b0 + 256 * b1 + 65536 * b2 + 16777216 * b3
    ELSE 0 - 1 - ((255 - b0) + 256 * (255 - b1) + 65536 * (255 - b2)
                  + 16777216 * (255 - b3))

\* C11: for a PGN 129025 frame with exactly 8 payload bytes, Latitude is the
\* little-endian two's complement signed 32-bit value of bytes 0..3 and
\* Longitude that of bytes 4..7, each scaled by 1e-7 and by nothing else.
C11_PositionIsInt32LE ==
    ( /\ Completed
      /\ IsFrame(line)
      /\ PgnOfId(line[3]) = PGN_POSITION
      /\ Len(PayloadOf(line)) = 8 )
    => LET b == PayloadOf(line)
       IN  /\ {"Latitude", "Longitude"} \subseteq DOMAIN data_dict
           /\ data_dict["Latitude"] = Num(Int32LE(b[1], b[2], b[3], b[4]), 7, 0)
           /\ data_dict["Longitude"] = Num(Int32LE(b[5], b[6], b[7], b[8]), 7, 0)

\* C11 witness: an 8-byte position frame with the sign bit set in both
\* fields has been decoded, to negative coordinates that differ.
C11_Witness ==
    /\ Completed
    /\ IsFrame(line)
    /\ PgnOfId(line[3]) = PGN_POSITION
    /\ Len(PayloadOf(line)) = 8
    /\ "Longitude" \in DOMAIN data_dict
    /\ data_dict["Latitude"].raw < 0
    /\ data_dict["Longitude"].raw < 0
    /\ data_dict["Latitude"].raw # data_dict["Longitude"].raw

DegreeKeys == {"Yaw", "Pitch", "Roll", "Heading"}

\* C12: the 180/pi conversion is applied exactly once to every value a frame
\* of PGN 127257 or 127250 publishes (Yaw, Pitch, Roll, Heading) and never
\* to a value a frame of another PGN publishes (Latitude, Longitude, SID).
C12_DegreesOnceForAttitudeAndHeading ==
    /\ \A k \in DOMAIN data_dict :
        data_dict[k].deg = IF k \in DegreeKeys THEN 1 ELSE 0
    /\ pc = "store" =>
        val.deg = IF pgn \in {PGN_ATTITUDE, PGN_HEADING} THEN 1 ELSE 0

\* C12 witness: a heading frame has published Heading while values of the
\* position and the 129026 frames are in the store.
C12_Witness ==
    /\ Completed
    /\ pgn = PGN_HEADING
    /\ {"Heading", "Latitude", "SID"} \subseteq DOMAIN data_dict
    /\ "Heading" \notin DOMAIN dictAtRead

\* C13: while a known PGN's schema is walked, the running offset is advanced
\* by the declared length of every field (decoded, failed, skipped as SID or
\* without a decoder), so at each field it is the sum of the declared lengths
\* of the fields before it.
C13_OffsetIsSumOfPrecedingLengths ==
    pc \in {"field", "store"} =>
        start = SumLengths(SubSeq(FieldList(pgn), 1, idx - 1))

\* C14: when the decoder of one field of a known-PGN frame fails, that
\* field's key keeps its previous value or absence, the failure stays inside
\* parse_raw_message, and every other field of the schema is still decoded
\* from its own byte range and published.
C14_FailedFieldSkippedSiblingsDecoded ==
    ( /\ frames > 0
      /\ Parses(line)
      /\ PgnOfId(line[3]) \in KnownPgns
      /\ \E g \in Published(PgnOfId(line[3])) : ~RefDecodes(line, g) )
    => /\ pc # "crashed"
       /\ Completed =>
            \A f \in Published(PgnOfId(line[3])) :
                IF RefDecodes(line, f)
                THEN /\ f.name \in DOMAIN data_dict
                     /\ data_dict[f.name] = RefValue(PayloadOf(line), f)
                ELSE /\ SameAt(data_dict, dictAtRead, f.name)
                     /\ [kind |-> "field", field |-> f.name] \in diag

\* C14 witness: a position frame whose Latitude bytes hold a value above
\* 255 has been decoded: Latitude kept the earlier frame's value, and the
\* Longitude after it was replaced.
C14_Witness ==
    /\ Completed
    /\ Parses(line)
    /\ PgnOfId(line[3]) = PGN_POSITION
    /\ Len(PayloadOf(line)) = 8
    /\ PayloadOf(line)[1] > 255
    /\ {"Latitude", "Longitude"} \subseteq DOMAIN dictAtRead
    /\ data_dict["Latitude"] = dictAtRead["Latitude"]
    /\ data_dict["Longitude"] # dictAtRead["Longitude"]

\* the consumer holds an unmodified snapshot that equals the store as it is
\* while the producer stands between the two fields of a position frame
SnapshotBetweenPositionFields ==
    /\ snapRef = "snap"
    /\ ~snapTouched
    /\ heap["snap"] = data_dict
    /\ pc = "field"
    /\ pgn = PGN_POSITION
    /\ idx = 2
    /\ IsFrame(line)
    /\ Len(PayloadOf(line)) >= 8

\* C15: frames are not published atomically: a get_data call made while the
\* producer is decoding a position frame returns the Latitude of that frame
\* together with the Longitude the store held before it (the previous
\* frame's).  The formula states what every such snapshot holds; the witness
\* is the interleaving the claim says exists.
C15_SnapshotMixesFrames ==
    SnapshotBetweenPositionFields =>
        /\ "Latitude" \in DOMAIN heap["snap"]
        /\ heap["snap"]["Latitude"] =
                RefValue(PayloadOf(line), Pub("Latitude", 1, 4, TRUE, 7, 0))
        /\ SameAt(heap["snap"], dictAtRead, "Longitude")

\* C15 witness: such a snapshot, where the previous frame's Latitude and
\* Longitude both differ from those of the frame being decoded.
C15_Witness ==
    /\ SnapshotBetweenPositionFields
    /\ {"Latitude", "Longitude"} \subseteq DOMAIN dictAtRead
    /\ heap["snap"]["Latitude"] # dictAtRead["Latitude"]
    /\ heap["snap"]["Longitude"] = dictAtRead["Longitude"]
    /\ heap["snap"]["Longitude"] #
            RefValue(PayloadOf(line), Pub("Longitude", 5, 8, TRUE, 7, 0))

\* the keys a line may change: those of the schema of its PGN
OwnKeys(l) ==
    IF ~Parses(l) THEN {}
    ELSE CASE PgnOfId(l[3]) = PGN_POSITION -> {"Latitude", "Longitude"}
           [] PgnOfId(l[3]) = PGN_COG_SOG -> {"SID"}
           [] PgnOfId(l[3]) = PGN_ATTITUDE -> {"Yaw", "Pitch", "Roll"}
           [] PgnOfId(l[3]) = PGN_HEADING -> {"Heading"}
           [] OTHER -> {}

\* C16: a frame changes only keys of its own PGN's schema, every other key
\* of the state store keeps its value, and no step ever removes a key.
C16_FrameChangesOnlyOwnKeys ==
    /\ [](frames > 0 =>
            \A k \in ((DOMAIN data_dict) \cup (DOMAIN dictAtRead)) \ OwnKeys(line) :
                SameAt(data_dict, dictAtRead, k))
    /\ [][(DOMAIN data_dict) \subseteq (DOMAIN data_dict')]_vars

\* C16 witness: an attitude frame has added Yaw to a store that holds
\* Latitude and Heading, which are as they were.
C16_Witness ==
    /\ Completed
    /\ PgnOfId(line[3]) = PGN_ATTITUDE
    /\ {"Latitude", "Heading"} \subseteq DOMAIN dictAtRead
    /\ "Yaw" \notin DOMAIN dictAtRead
    /\ "Yaw" \in DOMAIN data_dict
    /\ data_dict["Latitude"] = dictAtRead["Latitude"]
    /\ data_dict["Heading"] = dictAtRead["Heading"]

\* C17: the keys of the state store are among Latitude, Longitude, SID, Yaw,
\* Pitch, Roll and Heading (COG, SOG and COG Reference have no decoder), and
\* no key maps to the None that decode_angle_i16_field returns for other
\* than 2 bytes.
C17_KeysKnownAndNeverNone ==
    /\ (DOMAIN data_dict) \subseteq
            {"Latitude", "Longitude", "SID", "Yaw", "Pitch", "Roll", "Heading"}
    /\ \A k \in DOMAIN data_dict : data_dict[k].kind # "none"

\* C17 witness: after a 129026 frame, a truncated attitude frame has been
\* decoded for which decode_angle_i16_field returned None for Pitch: Pitch
\* is not in the store, and neither are COG, SOG or COG Reference.
C17_Witness ==
    /\ Completed
    /\ pgn = PGN_ATTITUDE
    /\ [kind |-> "insufficient", field |-> "Pitch"] \in diag
    /\ DOMAIN data_dict = {"SID", "Yaw"}

\* C18: payload bytes beyond the schema's total length are ignored: for a
\* frame of a known PGN with trailing bytes, the store after the frame is the
\* store that the same frame cut to the schema's total length produces, and
\* no length warning is emitted.
C18_TrailingBytesIgnored ==
    ( /\ Completed
      /\ Parses(line)
      /\ PgnOfId(line[3]) \in KnownPgns )
    => LET p == PgnOfId(line[3])
           payload == PayloadOf(line)
       IN  /\ data_dict = parse_raw_message(dictAtRead, p, payload)
           /\ Len(payload) > SchemaTotal(p) =>
                /\ data_dict = parse_raw_message(dictAtRead, p,
                                                 SubSeq(payload, 1, SchemaTotal(p)))
                /\ LengthWarning \notin diag

\* C18 witness: an attitude frame with a byte beyond the 7 of its schema has
\* been decoded and has replaced the Roll of an earlier frame.
C18_Witness ==
    /\ Completed
    /\ IsFrame(line)
    /\ pgn = PGN_ATTITUDE
    /\ Len(int_data_bytes) > SchemaTotal(PGN_ATTITUDE)
    /\ "Roll" \in DOMAIN dictAtRead
    /\ data_dict["Roll"] # dictAtRead["Roll"]
    /\ LengthWarning \notin diag

====
